---------------------------- MODULE Spec2Model ----------------------------
(***************************************************************************)
(* Model of the pet-app core: the self-validating entities Pet and Weight, *)
(* the error taxonomy, the repositories, the use cases CreatePet,          *)
(* CreateWeight and GetWeightsByPetId, and the request boundary: the       *)
(* validation middleware, the POST routes and the error handler.           *)
(*                                                                         *)
(* Representation                                                          *)
(*   string (names)   a sequence of one-character strings                  *)
(*   string (ids)     a TLA+ string; "" is the empty string                *)
(*   number           an integer count of 1/UnitsPerKg kg, or NaN          *)
(*   Date             its time value: an integer count of ticks since the  *)
(*                    epoch (TicksPerDay ticks a day, UTC), or NaN for an  *)
(*                    Invalid Date                                         *)
(*   date string      a record [kind, day, tick]: "date" is YYYY-MM-DD,    *)
(*                    "datetime" is YYYY-MM-DDTHH:MM:SSZ, anything else is *)
(*                    not parseable                                        *)
(*   an optional      a sequence of length 0 or 1                          *)
(*   JSON value       a record [type, ...]: undefined, a number, a string  *)
(*   string[]         a set of strings (validation messages)               *)
(***************************************************************************)
EXTENDS Integers, Sequences, FiniteSets, TLC

VARIABLES
    now,        \* the system clock, what new Date() reads
    nextId,     \* how many identifiers uuidv7() has handed out, plus one
    petObj,     \* the Pet object under test (entity level), optional
    weightObj,  \* the Weight object under test (entity level), optional
    entCall,    \* the last entity-level call: its arguments and what it threw
    pets,       \* table pet: a sequence of rows [id, name]
    weights,    \* table weight: a sequence of rows [id, petId, weight, date]
    exec,       \* the use-case executions in flight, one per request slot
    req         \* the HTTP request being served: its input, its position in
                \* the middleware chain and what was done to answer it

vars == <<now, nextId, petObj, weightObj, entCall, pets, weights, exec, req>>

---------------------------------------------------------------------------
(* Bounds of the model *)

UnitsPerKg == 1000
TicksPerDay == 2
MaxDay == 2
MaxIds == 3
MaxShortLen == 2

(* Program constants *)

MaxNameLength == 255
MaxWeightKg == 1000

---------------------------------------------------------------------------
(* JavaScript numbers: NaN compares false with everything *)

NaN == -1000000000

NumLE(a, b) == a # NaN /\ b # NaN /\ a <= b
NumGT(a, b) == a # NaN /\ b # NaN /\ a > b

Kg(whole, thousandths) == whole * UnitsPerKg + (thousandths * UnitsPerKg) \div 1000

---------------------------------------------------------------------------
(* Strings *)

WhiteSpace == {" ", "\t"}
Chars == WhiteSpace \cup {"a"}

Rep(c, n) == [i \in 1..n |-> c]

NonWhiteSpaceAt(s) == {i \in 1..Len(s) : s[i] \notin WhiteSpace}

Trim(s) ==
    LET keep == NonWhiteSpaceAt(s) IN
    IF keep = {} THEN <<>>
    ELSE SubSeq(s, CHOOSE i \in keep : \A j \in keep : i <= j,
                   CHOOSE i \in keep : \A j \in keep : i >= j)

---------------------------------------------------------------------------
(* Error taxonomy *)

NoError == [kind |-> "none", message |-> ""]

DomainError(message) == [kind |-> "DomainError", message |-> message]

NotFoundError(resource, id) ==
    [kind |-> "NotFoundError",
     message |-> IF id # "" THEN resource \o " with id " \o id \o " not found"
                 ELSE resource \o " not found"]

RangeError == [kind |-> "RangeError", message |-> "Invalid time value"]

\* errors is the array of messages; their order is the validation library's
\* and is not modelled: a set
ValidationError(errors) ==
    [kind |-> "ValidationError", message |-> "Validation failed", errors |-> errors]

\* the parameter id is optional: left out, it is undefined, which is falsy as
\* the empty string is
NewNotFoundError(resource, id) ==
    NotFoundError(resource, IF id = <<>> THEN "" ELSE id[1])

\* an error of a class other than the three above
OtherError(class, message) == [kind |-> class, message |-> message]

\* error instanceof class: each of the three classes extends Error directly
InstanceOf(error, class) == class \in {error.kind, "Error"}

---------------------------------------------------------------------------
(* Dates *)

\* new Date(string) reading a calendar date as midnight in a zone ahead of UTC
ParseDateLocal(s) ==
    CASE s.kind = "date" -> s.day * TicksPerDay - 1
      [] s.kind = "datetime" -> s.day * TicksPerDay + s.tick
      [] OTHER -> NaN

ParseDate(s) ==
    CASE s.kind = "date" -> s.day * TicksPerDay
      [] s.kind = "datetime" -> s.day * TicksPerDay + s.tick
      [] OTHER -> NaN

CalendarDate(day) == [kind |-> "date", day |-> day, tick |-> 0]

ToISODate(t) == CalendarDate(t \div TicksPerDay)

---------------------------------------------------------------------------
(* uuidv7 *)

\* the length of a UUID in its 8-4-4-4-12 text form
UuidLength == 36

Uuidv7 == "0192f6a0-0000-7000-8000-00000000000" \o ToString(nextId)

---------------------------------------------------------------------------
(* Pet entity *)

\* validate with the length check ahead of the required check
PetValidateLengthFirst(name) ==
    IF Len(name) > MaxNameLength
    THEN DomainError("Pet name cannot exceed 255 characters")
    ELSE IF name = <<>> \/ Len(Trim(name)) < 1 THEN DomainError("Pet name is required")
         ELSE NoError

\* validate with the length limit one too high
PetValidateOffByOne(name) ==
    IF name = <<>> \/ Len(Trim(name)) < 1 THEN DomainError("Pet name is required")
    ELSE IF Len(name) > MaxNameLength + 1
         THEN DomainError("Pet name cannot exceed 255 characters")
         ELSE NoError

PetValidate(name) ==
    IF name = <<>> \/ Len(Trim(name)) < 1 THEN DomainError("Pet name is required")
    ELSE IF Len(name) > MaxNameLength
         THEN DomainError("Pet name cannot exceed 255 characters")
         ELSE NoError

\* a constructor that keeps the trimmed name
PetFieldsTrimmed(id, name) == [id |-> id, name |-> Trim(name)]

PetFields(id, name) == [id |-> id, name |-> name]

NewPet(id, name) == [obj |-> PetFields(id, name), err |-> PetValidate(name)]

---------------------------------------------------------------------------
(* Weight entity *)

\* validate rejecting a date equal to now
WeightValidateNotToday(weight, date, clock) ==
    IF NumLE(weight, 0) THEN DomainError("Weight must be greater than 0")
    ELSE IF NumGT(weight, MaxWeightKg * UnitsPerKg)
         THEN DomainError("Weight cannot exceed 1000 kg")
         ELSE IF date # NaN /\ date >= clock
              THEN DomainError("Weight date cannot be in the future")
              ELSE NoError

WeightValidate(weight, date, clock) ==
    IF NumLE(weight, 0) THEN DomainError("Weight must be greater than 0")
    ELSE IF NumGT(weight, MaxWeightKg * UnitsPerKg)
         THEN DomainError("Weight cannot exceed 1000 kg")
         ELSE IF NumGT(date, clock)
              THEN DomainError("Weight date cannot be in the future")
              ELSE NoError

WeightFields(id, petId, weight, date) ==
    [id |-> id, petId |-> petId, weight |-> weight, date |-> date]

NewWeight(id, petId, weight, date, clock) ==
    [obj |-> WeightFields(id, petId, weight, date),
     err |-> WeightValidate(weight, date, clock)]

---------------------------------------------------------------------------
(* Inputs of the entity-level calls *)

ShortNames == UNION {[1..n -> Chars] : n \in 0..MaxShortLen}

LongNames ==
    UNION {{Rep("a", n), Rep(" ", n), <<" ">> \o Rep("a", n - 2) \o <<"\t">>} :
           n \in {MaxNameLength, MaxNameLength + 1}}

Names == ShortNames \cup LongNames

GivenIds == {"", "123e4567"}

FirstTick == TicksPerDay
LastTick == MaxDay * TicksPerDay

Dates == {NaN, 0, FirstTick, FirstTick + 1, LastTick, LastTick + 1}

Numbers ==
    {NaN, Kg(-5, 0), 0, 1, Kg(0, 5), Kg(25, 500), Kg(MaxWeightKg, 0),
     Kg(MaxWeightKg, 0) + 1, Kg(MaxWeightKg + 1, 0)}

NoCall ==
    [op |-> "none", id |-> "", petId |-> "", name |-> <<>>, weight |-> 0,
     date |-> 0, at |-> 0, err |-> NoError]

Some(x) == <<x>>
None == <<>>

---------------------------------------------------------------------------
(* The state after start-up: an empty database, no request in flight *)

Slots == {"r1"}

Idle ==
    [op |-> "idle", pc |-> "idle", petId |-> "", name |-> <<>>, weight |-> 0,
     date |-> CalendarDate(0), found |-> None, entity |-> None, at |-> 0,
     listed |-> <<>>, calls |-> <<>>, err |-> NoError, out |-> <<>>]

\* no request is being served
NoRequest ==
    [route |-> "none", pc |-> "idle", petId |-> "",
     body |-> [name |-> [type |-> "undefined"], weight |-> [type |-> "undefined"],
               date |-> [type |-> "undefined"]],
     executed |-> FALSE, thrown |-> <<>>, error |-> <<>>, effects |-> <<>>]

Init ==
    /\ now = FirstTick
    /\ nextId = 1
    /\ petObj = None
    /\ weightObj = None
    /\ entCall = NoCall
    /\ pets = <<>>
    /\ weights = <<>>
    /\ exec = [s \in Slots |-> Idle]
    /\ req = NoRequest

Tick ==
    /\ now < LastTick
    /\ now' = now + 1
    /\ UNCHANGED <<req, nextId, petObj, weightObj, entCall, pets, weights, exec>>

---------------------------------------------------------------------------
(* Entity-level calls on Pet *)

PetCalled(op, id, name) ==
    LET r == NewPet(id, name) IN
    /\ petObj' = IF r.err = NoError THEN Some(r.obj) ELSE None
    /\ entCall' = [NoCall EXCEPT !.op = op, !.id = id, !.name = name,
                                 !.at = now, !.err = r.err]

ConstructPet(id, name) ==
    /\ PetCalled("new Pet", id, name)
    /\ UNCHANGED <<req, now, nextId, weightObj, pets, weights, exec>>

PetCreate(name) ==
    /\ nextId <= MaxIds
    /\ PetCalled("Pet.create", Uuidv7, name)
    /\ nextId' = nextId + 1
    /\ UNCHANGED <<req, now, weightObj, pets, weights, exec>>

NextPet ==
    \/ \E id \in GivenIds, name \in Names : ConstructPet(id, name)
    \/ \E name \in Names : PetCreate(name)

SpecPet == Init /\ [][NextPet]_vars

---------------------------------------------------------------------------
(* Entity-level calls on Weight *)

WeightCalled(op, id, petId, weight, date) ==
    LET r == NewWeight(id, petId, weight, date, now) IN
    /\ weightObj' = IF r.err = NoError THEN Some(r.obj) ELSE None
    /\ entCall' = [NoCall EXCEPT !.op = op, !.id = id, !.petId = petId,
                                 !.weight = weight, !.date = date,
                                 !.at = now, !.err = r.err]

ConstructWeight(id, petId, weight, date) ==
    /\ WeightCalled("new Weight", id, petId, weight, date)
    /\ UNCHANGED <<req, now, nextId, petObj, pets, weights, exec>>

WeightCreate(petId, weight, date) ==
    /\ nextId <= MaxIds
    /\ WeightCalled("Weight.create", Uuidv7, petId, weight, date)
    /\ nextId' = nextId + 1
    /\ UNCHANGED <<req, now, petObj, pets, weights, exec>>

NextWeight ==
    \/ Tick
    \/ \E petId \in GivenIds, weight \in Numbers, date \in Dates :
          ConstructWeight("123e4567", petId, weight, date)
    \/ \E petId \in GivenIds, weight \in Numbers, date \in Dates :
          WeightCreate(petId, weight, date)

SpecWeight == Init /\ [][NextWeight]_vars

---------------------------------------------------------------------------
(* Repositories over the tables pet and weight *)

Uuid(n) == "0192f6a0-0000-7000-8000-00000000000" \o ToString(n)

PetRow(pet) == [id |-> pet.id, name |-> pet.name]

UpsertRow(table, row) ==
    IF \E i \in 1..Len(table) : table[i].id = row.id
    THEN [i \in 1..Len(table) |-> IF table[i].id = row.id THEN row ELSE table[i]]
    ELSE Append(table, row)

\* findOne by primary key, then toDomain (which re-runs the constructor).  An id
\* that no row carries is answered absent, as IPetRepository.findById
\* specifies, the empty string included.
PetFindById(id) ==
    LET hits == {i \in 1..Len(pets) : pets[i].id = id} IN
    IF hits = {} THEN [found |-> None, err |-> NoError]
    ELSE LET row == pets[CHOOSE i \in hits : TRUE]
             r == NewPet(row.id, row.name)
         IN [found |-> IF r.err = NoError THEN Some(r.obj) ELSE None, err |-> r.err]

\* toEntity keeping the calendar day the date ends in
WeightRowRoundedUp(w) ==
    [id |-> w.id, petId |-> w.petId, weight |-> w.weight,
     date |-> (w.date + TicksPerDay - 1) \div TicksPerDay]

\* toEntity; the column weight.date is of type date, it keeps the calendar day
WeightRow(w) ==
    [id |-> w.id, petId |-> w.petId, weight |-> w.weight,
     date |-> w.date \div TicksPerDay]

WeightToDomain(row, clock) ==
    NewWeight(row.id, row.petId, row.weight, ParseDate(CalendarDate(row.date)), clock)

\* find with order date DESC: the rows of the pet, most recent day first, rows
\* of the same day in any order
Injections(n, m) ==
    {f \in [1..n -> 1..m] : \A i, j \in 1..n : f[i] = f[j] => i = j}

\* find without the order clause: the rows of the pet as they were inserted
WeightFindRowsUnordered(petId) ==
    LET hits == {i \in 1..Len(weights) : weights[i].petId = petId}
        n == Cardinality(hits)
    IN {[k \in 1..n |-> weights[f[k]]] :
          f \in {g \in Injections(n, Len(weights)) :
                    /\ \A k \in 1..n : g[k] \in hits
                    /\ \A k \in 1..(n - 1) : g[k] < g[k + 1]}}

\* find without the where clause: the rows of every pet, most recent day first
WeightFindRowsOfAnyPet(petId) ==
    LET n == Len(weights)
    IN {[k \in 1..n |-> weights[f[k]]] :
          f \in {g \in Injections(n, n) :
                    \A k \in 1..(n - 1) :
                       weights[g[k]].date >= weights[g[k + 1]].date}}

WeightFindRows(petId) ==
    LET hits == {i \in 1..Len(weights) : weights[i].petId = petId}
        n == Cardinality(hits)
    IN {[k \in 1..n |-> weights[f[k]]] :
          f \in {g \in Injections(n, Len(weights)) :
                    /\ \A k \in 1..n : g[k] \in hits
                    /\ \A k \in 1..(n - 1) :
                          weights[g[k]].date >= weights[g[k + 1]].date}}

---------------------------------------------------------------------------
(* Output shaping *)

PetOutputDTO(pet) == [id |-> pet.id, name |-> pet.name]

WeightOutputDTO(w) ==
    [id |-> w.id, petId |-> w.petId, weight |-> w.weight, date |-> ToISODate(w.date)]

Failed(e, error) == [e EXCEPT !.pc = "done", !.err = error]

Returned(e, output) == [e EXCEPT !.pc = "done", !.out = output]

---------------------------------------------------------------------------
(* CreatePetUseCase.execute *)

\* execute handing the Pet to save without validating it first
CreatePetExecuteSaveFirst(name, id) ==
    [Idle EXCEPT !.op = "CreatePet", !.name = name, !.pc = "awaitSave",
                 !.entity = Some(PetFields(id, name)),
                 !.calls = <<"petRepository.save">>]

\* execute looking the name's pet up before saving it
CreatePetExecuteWithLookup(name, id) ==
    LET r == NewPet(id, name)
        e == [Idle EXCEPT !.op = "CreatePet", !.name = name]
    IN IF r.err # NoError THEN Failed(e, r.err)
       ELSE [e EXCEPT !.pc = "awaitSave", !.entity = Some(r.obj),
                      !.calls = <<"petRepository.findById", "petRepository.save">>]

\* execute creating the Pet from the trimmed name
CreatePetExecuteTrimmed(name, id) ==
    LET r == NewPet(id, Trim(name))
        e == [Idle EXCEPT !.op = "CreatePet", !.name = name]
    IN IF r.err # NoError THEN Failed(e, r.err)
       ELSE [e EXCEPT !.pc = "awaitSave", !.entity = Some(r.obj),
                      !.calls = <<"petRepository.save">>]

CreatePetExecute(name, id) ==
    LET r == NewPet(id, name)
        e == [Idle EXCEPT !.op = "CreatePet", !.name = name]
    IN IF r.err # NoError THEN Failed(e, r.err)
       ELSE [e EXCEPT !.pc = "awaitSave", !.entity = Some(r.obj),
                      !.calls = <<"petRepository.save">>]

CreatePetSaved(e) ==
    LET r == NewPet(e.entity[1].id, e.entity[1].name) IN
    IF r.err # NoError THEN Failed(e, r.err)
    ELSE Returned(e, <<PetOutputDTO(r.obj)>>)

IdsReserved == Cardinality({s \in DOMAIN exec : exec[s].op = "CreateWeight"
                                                /\ exec[s].pc = "awaitFindPet"})

CreatePetStart(s, name) ==
    /\ exec[s].pc = "idle"
    /\ nextId + IdsReserved <= MaxIds
    /\ exec' = [exec EXCEPT ![s] = CreatePetExecute(name, Uuidv7)]
    /\ nextId' = nextId + 1
    /\ UNCHANGED <<req, now, petObj, weightObj, entCall, pets, weights>>

CreatePetSaveReturns(s) ==
    /\ exec[s].op = "CreatePet"
    /\ exec[s].pc = "awaitSave"
    /\ pets' = UpsertRow(pets, PetRow(exec[s].entity[1]))
    /\ exec' = [exec EXCEPT ![s] = CreatePetSaved(exec[s])]
    /\ UNCHANGED <<req, now, nextId, petObj, weightObj, entCall, weights>>

---------------------------------------------------------------------------
(* CreateWeightUseCase.execute *)

CreateWeightExecute(petId, weight, date) ==
    [Idle EXCEPT !.op = "CreateWeight", !.pc = "awaitFindPet", !.petId = petId,
                 !.weight = weight, !.date = date,
                 !.calls = <<"petRepository.findById">>]

\* execute handing the Weight to save without validating it first
CreateWeightAfterFindUnchecked(e, lookup, id, clock) ==
    IF lookup.err # NoError THEN Failed(e, lookup.err)
    ELSE IF lookup.found = None
         THEN Failed([e EXCEPT !.found = None], NotFoundError("Pet", e.petId))
         ELSE [e EXCEPT !.found = lookup.found, !.at = clock, !.pc = "awaitSave",
                        !.entity = Some(WeightFields(id, e.petId, e.weight,
                                                     ParseDate(e.date))),
                        !.calls = Append(e.calls, "weightRepository.save")]

\* execute going on to create the Weight whether the pet was found or not
CreateWeightAfterFindAnyPet(e, lookup, id, clock) ==
    IF lookup.err # NoError THEN Failed(e, lookup.err)
    ELSE LET r == NewWeight(id, e.petId, e.weight, ParseDate(e.date), clock)
             f == [e EXCEPT !.found = lookup.found, !.at = clock]
         IN IF r.err # NoError THEN Failed(f, r.err)
            ELSE [f EXCEPT !.pc = "awaitSave", !.entity = Some(r.obj),
                           !.calls = Append(e.calls, "weightRepository.save")]

CreateWeightAfterFind(e, lookup, id, clock) ==
    IF lookup.err # NoError THEN Failed(e, lookup.err)
    ELSE IF lookup.found = None
         THEN Failed([e EXCEPT !.found = None], NotFoundError("Pet", e.petId))
         ELSE LET r == NewWeight(id, e.petId, e.weight, ParseDate(e.date), clock)
                  f == [e EXCEPT !.found = lookup.found, !.at = clock]
              IN IF r.err # NoError THEN Failed(f, r.err)
                 ELSE [f EXCEPT !.pc = "awaitSave", !.entity = Some(r.obj),
                                !.calls = Append(e.calls, "weightRepository.save")]

CreateWeightSaved(e, clock) ==
    LET w == e.entity[1]
        r == NewWeight(w.id, w.petId, w.weight, w.date, clock)
    IN IF r.err # NoError THEN Failed(e, r.err)
       ELSE IF r.obj.date = NaN THEN Failed(e, RangeError)
            ELSE Returned(e, <<WeightOutputDTO(r.obj)>>)

CreateWeightStart(s, petId, weight, date) ==
    /\ exec[s].pc = "idle"
    /\ nextId + IdsReserved <= MaxIds
    /\ exec' = [exec EXCEPT ![s] = CreateWeightExecute(petId, weight, date)]
    /\ UNCHANGED <<req, now, nextId, petObj, weightObj, entCall, pets, weights>>

CreateWeightFindReturns(s) ==
    /\ exec[s].op = "CreateWeight"
    /\ exec[s].pc = "awaitFindPet"
    /\ LET lookup == PetFindById(exec[s].petId) IN
       /\ exec' = [exec EXCEPT
                     ![s] = CreateWeightAfterFind(exec[s], lookup, Uuidv7, now)]
       /\ nextId' = IF lookup.err = NoError /\ lookup.found # None
                    THEN nextId + 1 ELSE nextId
    /\ UNCHANGED <<req, now, petObj, weightObj, entCall, pets, weights>>

CreateWeightSaveReturns(s) ==
    /\ exec[s].op = "CreateWeight"
    /\ exec[s].pc = "awaitSave"
    /\ weights' = UpsertRow(weights, WeightRow(exec[s].entity[1]))
    /\ exec' = [exec EXCEPT ![s] = CreateWeightSaved(exec[s], now)]
    /\ UNCHANGED <<req, now, nextId, petObj, weightObj, entCall, pets>>

---------------------------------------------------------------------------
(* GetWeightsByPetIdUseCase.execute *)

GetWeightsExecute(petId) ==
    [Idle EXCEPT !.op = "GetWeightsByPetId", !.pc = "awaitFindPet",
                 !.petId = petId, !.calls = <<"petRepository.findById">>]

GetWeightsAfterFind(e, lookup) ==
    IF lookup.err # NoError THEN Failed(e, lookup.err)
    ELSE IF lookup.found = None
         THEN Failed([e EXCEPT !.found = None], NotFoundError("Pet", e.petId))
         ELSE [e EXCEPT !.pc = "awaitList", !.found = lookup.found,
                        !.calls = Append(e.calls, "weightRepository.findByPetId")]

\* execute listing the records oldest first, whatever the repository's order
GetWeightsListedReversed(e, rows, clock) ==
    LET rs == [k \in 1..Len(rows) |-> WeightToDomain(rows[k], clock)]
        bad == {k \in 1..Len(rows) : rs[k].err # NoError}
        n == Len(rows)
    IN IF bad # {}
       THEN Failed(e, rs[CHOOSE k \in bad : \A j \in bad : k <= j].err)
       ELSE Returned([e EXCEPT !.listed = [k \in 1..n |-> rs[k].obj]],
                     [k \in 1..n |-> WeightOutputDTO(rs[n + 1 - k].obj)])

\* findByPetId resolves to the Weights toDomain built from the rows (listed);
\* the use case maps them, in place, to output records
GetWeightsListed(e, rows, clock) ==
    LET rs == [k \in 1..Len(rows) |-> WeightToDomain(rows[k], clock)]
        bad == {k \in 1..Len(rows) : rs[k].err # NoError}
    IN IF bad # {}
       THEN Failed(e, rs[CHOOSE k \in bad : \A j \in bad : k <= j].err)
       ELSE Returned([e EXCEPT !.listed = [k \in 1..Len(rows) |-> rs[k].obj]],
                     [k \in 1..Len(rows) |-> WeightOutputDTO(rs[k].obj)])

GetWeightsStart(s, petId) ==
    /\ exec[s].pc = "idle"
    /\ exec' = [exec EXCEPT ![s] = GetWeightsExecute(petId)]
    /\ UNCHANGED <<req, now, nextId, petObj, weightObj, entCall, pets, weights>>

GetWeightsFindReturns(s) ==
    /\ exec[s].op = "GetWeightsByPetId"
    /\ exec[s].pc = "awaitFindPet"
    /\ exec' = [exec EXCEPT
                  ![s] = GetWeightsAfterFind(exec[s], PetFindById(exec[s].petId))]
    /\ UNCHANGED <<req, now, nextId, petObj, weightObj, entCall, pets, weights>>

GetWeightsListReturns(s) ==
    /\ exec[s].op = "GetWeightsByPetId"
    /\ exec[s].pc = "awaitList"
    /\ \E rows \in WeightFindRows(exec[s].petId) :
          exec' = [exec EXCEPT ![s] = GetWeightsListed(exec[s], rows, now)]
    /\ UNCHANGED <<req, now, nextId, petObj, weightObj, entCall, pets, weights>>

---------------------------------------------------------------------------
(* The caller takes the result; the slot is free for the next request *)

Finish(s) ==
    /\ exec[s].pc = "done"
    /\ exec' = [exec EXCEPT ![s] = Idle]
    /\ UNCHANGED <<req, now, nextId, petObj, weightObj, entCall, pets, weights>>

---------------------------------------------------------------------------
(* Inputs of the use cases *)

GhostId == "00000000-0000-4000-8000-00000000dead"

InputPetIds == {"", GhostId} \cup {Uuid(n) : n \in 1..MaxIds}

InputNames == {<<>>, <<" ">>, <<"a">>, <<" ", "a", "\t">>, Rep("a", MaxNameLength + 1)}

InputWeights == {NaN, 0, Kg(25, 500), Kg(MaxWeightKg, 0), Kg(MaxWeightKg, 0) + 1}

InputDates ==
    {CalendarDate(d) : d \in {0, MaxDay}}
    \cup {[kind |-> "datetime", day |-> 1, tick |-> TicksPerDay - 1]}

Next ==
    \/ Tick
    \/ \E s \in Slots, name \in InputNames : CreatePetStart(s, name)
    \/ \E s \in Slots : CreatePetSaveReturns(s)
    \/ \E s \in Slots, petId \in InputPetIds, weight \in InputWeights,
          date \in InputDates : CreateWeightStart(s, petId, weight, date)
    \/ \E s \in Slots : CreateWeightFindReturns(s)
    \/ \E s \in Slots : CreateWeightSaveReturns(s)
    \/ \E s \in Slots, petId \in InputPetIds : GetWeightsStart(s, petId)
    \/ \E s \in Slots : GetWeightsFindReturns(s)
    \/ \E s \in Slots : GetWeightsListReturns(s)
    \/ \E s \in Slots : Finish(s)

Spec == Init /\ [][Next]_vars

---------------------------------------------------------------------------
(* The setters of the entities, and entities rebuilt from their rows *)

\* set name: assign, then validate the object as it now is
SetName(pet, value) ==
    LET obj == [pet EXCEPT !.name = value] IN
    [obj |-> obj, err |-> PetValidate(obj.name)]

\* set weight validating the new value before assigning it
SetWeightValidatingFirst(w, value, clock) ==
    LET err == WeightValidate(value, w.date, clock) IN
    [obj |-> IF err = NoError THEN [w EXCEPT !.weight = value] ELSE w, err |-> err]

\* set weight stamping the date of the change as well
SetWeightTouchingDate(w, value, clock) ==
    LET obj == [w EXCEPT !.weight = value, !.date = clock] IN
    [obj |-> obj, err |-> WeightValidate(obj.weight, obj.date, clock)]

SetWeight(w, value, clock) ==
    LET obj == [w EXCEPT !.weight = value] IN
    [obj |-> obj, err |-> WeightValidate(obj.weight, obj.date, clock)]

SetDate(w, value, clock) ==
    LET obj == [w EXCEPT !.date = value] IN
    [obj |-> obj, err |-> WeightValidate(obj.weight, obj.date, clock)]

\* save: toEntity, the row written, toDomain of what was written
WeightSaved(w, clock) == WeightToDomain(WeightRow(w), clock)

PetSaved(pet) == NewPet(PetRow(pet).id, PetRow(pet).name)

\* a test starts with the one entity it is about
PetUnderTest(id, name) ==
    /\ PetCalled("new Pet", id, name)
    /\ weightObj' = None
    /\ UNCHANGED <<req, now, nextId, pets, weights, exec>>

WeightUnderTest(id, petId, weight, date) ==
    /\ WeightCalled("new Weight", id, petId, weight, date)
    /\ petObj' = None
    /\ UNCHANGED <<req, now, nextId, pets, weights, exec>>

PetSetName(value) ==
    /\ petObj # None
    /\ LET r == SetName(petObj[1], value) IN
       /\ petObj' = Some(r.obj)
       /\ entCall' = [NoCall EXCEPT !.op = "set name", !.name = value,
                                    !.at = now, !.err = r.err]
    /\ UNCHANGED <<req, now, nextId, weightObj, pets, weights, exec>>

WeightSetWeight(value) ==
    /\ weightObj # None
    /\ LET r == SetWeight(weightObj[1], value, now) IN
       /\ weightObj' = Some(r.obj)
       /\ entCall' = [NoCall EXCEPT !.op = "set weight", !.weight = value,
                                    !.at = now, !.err = r.err]
    /\ UNCHANGED <<req, now, nextId, petObj, pets, weights, exec>>

WeightSetDate(value) ==
    /\ weightObj # None
    /\ LET r == SetDate(weightObj[1], value, now) IN
       /\ weightObj' = Some(r.obj)
       /\ entCall' = [NoCall EXCEPT !.op = "set date", !.date = value,
                                    !.at = now, !.err = r.err]
    /\ UNCHANGED <<req, now, nextId, petObj, pets, weights, exec>>

\* the entity in hand passed the validation of the last call made on it
PetPassed == petObj # None /\ entCall.op \in {"new Pet", "set name", "save Pet"}
             /\ entCall.err = NoError

WeightPassed ==
    /\ weightObj # None
    /\ entCall.op \in {"new Weight", "set weight", "set date", "save Weight"}
    /\ entCall.err = NoError

\* the repository's save of an entity that passed validation: the domain
\* object rebuilt from the row replaces it
PetSave ==
    /\ PetPassed
    /\ LET r == PetSaved(petObj[1]) IN
       /\ petObj' = IF r.err = NoError THEN Some(r.obj) ELSE None
       /\ entCall' = [NoCall EXCEPT !.op = "save Pet", !.at = now, !.err = r.err]
    /\ UNCHANGED <<req, now, nextId, weightObj, pets, weights, exec>>

WeightSave ==
    /\ WeightPassed
    /\ weightObj[1].date # NaN
    /\ LET r == WeightSaved(weightObj[1], now) IN
       /\ weightObj' = IF r.err = NoError THEN Some(r.obj) ELSE None
       /\ entCall' = [NoCall EXCEPT !.op = "save Weight", !.at = now, !.err = r.err]
    /\ UNCHANGED <<req, now, nextId, petObj, pets, weights, exec>>

SetterNames ==
    {<<>>, <<" ">>, <<"a">>, <<" ", "a", "\t">>, Rep("a", MaxNameLength),
     Rep("a", MaxNameLength + 1)}

NextEntities ==
    \/ Tick
    \/ \E name \in SetterNames : PetUnderTest("123e4567", name)
    \/ \E name \in SetterNames : PetSetName(name)
    \/ PetSave
    \/ \E weight \in Numbers, date \in Dates :
          WeightUnderTest("123e4567", "123e4567", weight, date)
    \/ \E weight \in Numbers : WeightSetWeight(weight)
    \/ \E date \in Dates : WeightSetDate(date)
    \/ WeightSave

SpecEntities == Init /\ [][NextEntities]_vars

---------------------------------------------------------------------------

(* errorHandler, the last middleware of the application *)

ResJson(status, body) == [op |-> "res.json", status |-> status, body |-> body]

ConsoleError(error) == [op |-> "console.error", label |-> "Unexpected error:",
                        error |-> error]

\* errorHandler answering an unexpected error with the error's own message
ErrorHandlerExposing(error) ==
    IF InstanceOf(error, "ValidationError")
    THEN <<ResJson(400, [error |-> "Validation failed", details |-> error.errors])>>
    ELSE IF InstanceOf(error, "NotFoundError")
         THEN <<ResJson(404, [error |-> error.message])>>
         ELSE IF InstanceOf(error, "DomainError")
              THEN <<ResJson(400, [error |-> error.message])>>
              ELSE <<ConsoleError(error), ResJson(500, [error |-> error.message])>>

\* what errorHandler does with an error, in the order it does it
ErrorHandler(error) ==
    IF InstanceOf(error, "ValidationError")
    THEN <<ResJson(400, [error |-> "Validation failed", details |-> error.errors])>>
    ELSE IF InstanceOf(error, "NotFoundError")
         THEN <<ResJson(404, [error |-> error.message])>>
         ELSE IF InstanceOf(error, "DomainError")
              THEN <<ResJson(400, [error |-> error.message])>>
              ELSE <<ConsoleError(error),
                     ResJson(500, [error |-> "Internal server error"])>>

\* new <class>(...): the error a throw statement constructs
Construct(thrown) ==
    CASE thrown.class = "ValidationError" -> ValidationError(thrown.errors)
      [] thrown.class = "NotFoundError"
            -> NewNotFoundError(thrown.resource, thrown.id)
      [] thrown.class = "DomainError" -> DomainError(thrown.message)
      [] OTHER -> OtherError(thrown.class, thrown.message)

\* errorHandler called on its own with an error, as its unit tests do
ErrorHandlerCalled(thrown) ==
    /\ req' = [NoRequest EXCEPT !.route = "errorHandler", !.pc = "responded",
                                !.thrown = Some(thrown),
                                !.error = Some(Construct(thrown)),
                                !.effects = ErrorHandler(Construct(thrown))]
    /\ UNCHANGED <<now, nextId, petObj, weightObj, entCall, pets, weights, exec>>

BoundaryMessages ==
    {"Field is required", "Pet name must be a string", "Pet name is required",
     "Pet name cannot exceed 255 characters", "Weight must be a number",
     "Date must be a valid date string", "Pet ID must be a valid UUID"}

DomainMessages ==
    {"Invalid weight value", "Pet name is required",
     "Weight must be greater than 0", "Weight date cannot be in the future", ""}

OtherClasses == {"Error", "TypeError", "QueryFailedError"}

OtherMessages == {"Unexpected database error", "Invalid time value", ""}

NoThrown == [class |-> "Error", resource |-> "", id |-> <<>>, message |-> "",
             errors |-> {}]

ThrownErrors ==
    {[NoThrown EXCEPT !.class = "ValidationError", !.errors = errors] :
        errors \in SUBSET BoundaryMessages}
    \cup {[NoThrown EXCEPT !.class = "NotFoundError", !.resource = resource,
                           !.id = id] :
            resource \in {"Pet", "Weight"},
            id \in {None, Some(""), Some("123"), Some(GhostId)}}
    \cup {[NoThrown EXCEPT !.class = "DomainError", !.message = message] :
            message \in DomainMessages}
    \cup {[NoThrown EXCEPT !.class = class, !.message = message] :
            class \in OtherClasses, message \in OtherMessages}

NextErrors == \E thrown \in ThrownErrors : ErrorHandlerCalled(thrown)

SpecErrors == Init /\ [][NextErrors]_vars

---------------------------------------------------------------------------

(* The request boundary: JSON bodies, the validation middleware, the routes *)

\* a value of a JSON body; a field the body lacks reads undefined
JsUndefined == [type |-> "undefined"]
JsNumber(n) == [type |-> "number", num |-> n]
JsString(s) == [type |-> "string", str |-> s]

\* the decorators of class-validator; none of them passes undefined, since no
\* property is marked optional
IsString(v) == v.type = "string"
MinLength(v, n) == v.type = "string" /\ Len(v.str) >= n
MaxLength(v, n) == v.type = "string" /\ Len(v.str) <= n
IsNumber(v) == v.type = "number" /\ v.num # NaN
Min(v, n) == v.type = "number" /\ NumLE(n, v.num)
Max(v, n) == v.type = "number" /\ NumLE(v.num, n)
IsDateString(v) == v.type = "string" /\ v.str.kind \in {"date", "datetime"}
\* a string of the 8-4-4-4-12 layout; of the layout only the length is kept
IsUUID(id) == Len(id) = UuidLength

\* the messages of the constraints a value violates
Violated(rules) == {r.message : r \in {q \in rules : ~q.ok}}

CreatePetDTO(body) ==
    Violated({[ok |-> IsString(body.name), message |-> "Pet name must be a string"],
              [ok |-> MinLength(body.name, 1), message |-> "Pet name is required"],
              [ok |-> MaxLength(body.name, MaxNameLength),
               message |-> "Pet name cannot exceed 255 characters"]})

MinWeight == Kg(0, 10)

\* the DTO without its @Min rule
CreateWeightDTOWithoutMin(body) ==
    Violated({[ok |-> IsNumber(body.weight), message |-> "Weight must be a number"],
              [ok |-> Max(body.weight, Kg(MaxWeightKg, 0)),
               message |-> "Weight cannot exceed 1000 kg"],
              [ok |-> IsDateString(body.date),
               message |-> "Date must be a valid date string"]})

CreateWeightDTO(body) ==
    Violated({[ok |-> IsNumber(body.weight), message |-> "Weight must be a number"],
              [ok |-> Min(body.weight, MinWeight),
               message |-> "Weight must be greater than 0"],
              [ok |-> Max(body.weight, Kg(MaxWeightKg, 0)),
               message |-> "Weight cannot exceed 1000 kg"],
              [ok |-> IsDateString(body.date),
               message |-> "Date must be a valid date string"]})

PetIdParamDTO(petId) ==
    Violated({[ok |-> IsUUID(petId), message |-> "Pet ID must be a valid UUID"]})

PostPets == "POST /api/pets"
PostWeights == "POST /api/pets/:petId/weights"

\* next(error) skips to errorHandler; next() goes on to the next middleware
NextWith(r, error) == [r EXCEPT !.pc = "errorHandler", !.error = Some(error)]

\* validateBody running before the path parameters were validated
ValidateParamsSkipped(r) == [r EXCEPT !.pc = "validateBody"]

ValidateParams(r) ==
    LET errors == PetIdParamDTO(r.petId) IN
    IF errors # {} THEN NextWith(r, ValidationError(errors))
    ELSE [r EXCEPT !.pc = "validateBody"]

ValidateBody(r) ==
    LET errors == IF r.route = PostPets THEN CreatePetDTO(r.body)
                  ELSE CreateWeightDTO(r.body)
    IN IF errors # {} THEN NextWith(r, ValidationError(errors))
       ELSE [r EXCEPT !.pc = "handler"]

\* a request arrives once the one before it has been answered
Receive(route, petId, body) ==
    /\ req.pc \in {"idle", "responded"}
    /\ req' = [NoRequest EXCEPT !.route = route, !.petId = petId, !.body = body,
                                !.pc = IF route = PostWeights THEN "validateParams"
                                       ELSE "validateBody"]
    /\ UNCHANGED <<now, nextId, petObj, weightObj, entCall, pets, weights, exec>>

ValidateParamsRuns ==
    /\ req.pc = "validateParams"
    /\ req' = ValidateParams(req)
    /\ UNCHANGED <<now, nextId, petObj, weightObj, entCall, pets, weights, exec>>

ValidateBodyRuns ==
    /\ req.pc = "validateBody"
    /\ req' = ValidateBody(req)
    /\ UNCHANGED <<now, nextId, petObj, weightObj, entCall, pets, weights, exec>>

\* the route handler, to the await of useCase.execute
PostPetsHandler(s) ==
    /\ req.pc = "handler"
    /\ req.route = PostPets
    /\ exec[s].pc = "idle"
    /\ nextId + IdsReserved <= MaxIds
    /\ exec' = [exec EXCEPT ![s] = CreatePetExecute(req.body.name.str, Uuidv7)]
    /\ nextId' = nextId + 1
    /\ req' = [req EXCEPT !.pc = "awaitExecute", !.executed = TRUE]
    /\ UNCHANGED <<now, petObj, weightObj, entCall, pets, weights>>

PostWeightsHandler(s) ==
    /\ req.pc = "handler"
    /\ req.route = PostWeights
    /\ exec[s].pc = "idle"
    /\ nextId + IdsReserved <= MaxIds
    /\ exec' = [exec EXCEPT ![s] = CreateWeightExecute(req.petId, req.body.weight.num,
                                                       req.body.date.str)]
    /\ req' = [req EXCEPT !.pc = "awaitExecute", !.executed = TRUE]
    /\ UNCHANGED <<now, nextId, petObj, weightObj, entCall, pets, weights>>

\* the route handler after useCase.execute settled: 201 with the result, or
\* the error handed to next
\* the route handler with a catch that drops the error
HandlerResumedSwallowing(r, e) ==
    IF e.err = NoError
    THEN [r EXCEPT !.pc = "responded", !.effects = <<ResJson(201, e.out[1])>>]
    ELSE [r EXCEPT !.pc = "returned"]

HandlerResumed(r, e) ==
    IF e.err = NoError
    THEN [r EXCEPT !.pc = "responded", !.effects = <<ResJson(201, e.out[1])>>]
    ELSE NextWith(r, e.err)

HandlerResumes(s) ==
    /\ req.pc = "awaitExecute"
    /\ exec[s].pc = "done"
    /\ req' = HandlerResumed(req, exec[s])
    /\ exec' = [exec EXCEPT ![s] = Idle]
    /\ UNCHANGED <<now, nextId, petObj, weightObj, entCall, pets, weights>>

ErrorHandlerRuns ==
    /\ req.pc = "errorHandler"
    /\ req' = [req EXCEPT !.pc = "responded", !.effects = ErrorHandler(req.error[1])]
    /\ UNCHANGED <<now, nextId, petObj, weightObj, entCall, pets, weights, exec>>

(* Requests *)

BodyNames ==
    {JsUndefined, JsNumber(123), JsString(<<>>), JsString(<<" ">>),
     JsString(<<"a">>), JsString(<<" ", "a", "\t">>),
     JsString(Rep("a", MaxNameLength + 1))}

BodyWeights ==
    {JsUndefined, JsString(<<"a">>), JsNumber(0), JsNumber(Kg(0, 5)),
     JsNumber(Kg(25, 500)), JsNumber(Kg(MaxWeightKg, 0) + 1)}

BodyDates ==
    {JsUndefined, JsString([kind |-> "text", day |-> 0, tick |-> 0]),
     JsString(CalendarDate(0)), JsString(CalendarDate(MaxDay))}

PathPetIds == {"invalid-uuid", GhostId, Uuid(1)}

NoBody == NoRequest.body

NextHttp ==
    \/ Tick
    \/ \E name \in BodyNames :
          Receive(PostPets, "", [NoBody EXCEPT !.name = name])
    \/ \E petId \in PathPetIds, weight \in BodyWeights, date \in BodyDates :
          Receive(PostWeights, petId,
                  [NoBody EXCEPT !.weight = weight, !.date = date])
    \/ ValidateParamsRuns
    \/ ValidateBodyRuns
    \/ \E s \in Slots : PostPetsHandler(s)
    \/ \E s \in Slots : PostWeightsHandler(s)
    \/ \E s \in Slots : CreatePetSaveReturns(s)
    \/ \E s \in Slots : CreateWeightFindReturns(s)
    \/ \E s \in Slots : CreateWeightSaveReturns(s)
    \/ \E s \in Slots : HandlerResumes(s)
    \/ ErrorHandlerRuns

SpecHttp == Init /\ [][NextHttp]_vars

---------------------------------------------------------------------------
(* Serving requests to the end: every await settles *)

\* an awaited repository call rejects: the connection is lost, the query fails
RepositoryRejects(s) ==
    /\ exec[s].pc \in {"awaitFindPet", "awaitSave"}
    /\ exec' = [exec EXCEPT ![s] = Failed(exec[s],
                   OtherError("QueryFailedError", "Unexpected database error"))]
    /\ UNCHANGED <<req, now, nextId, petObj, weightObj, entCall, pets, weights>>

ServedNames == {JsUndefined, JsString(<<" ">>), JsString(<<"a">>)}
ServedWeights == {JsUndefined, JsNumber(Kg(25, 500))}
ServedDates == {JsString(CalendarDate(0)), JsString(CalendarDate(MaxDay))}

\* the steps that take a request in service forward
ServeProgress ==
    \/ ValidateParamsRuns
    \/ ValidateBodyRuns
    \/ \E s \in Slots : PostPetsHandler(s)
    \/ \E s \in Slots : PostWeightsHandler(s)
    \/ \E s \in Slots : CreatePetSaveReturns(s)
    \/ \E s \in Slots : CreateWeightFindReturns(s)
    \/ \E s \in Slots : CreateWeightSaveReturns(s)
    \/ \E s \in Slots : RepositoryRejects(s)
    \/ \E s \in Slots : HandlerResumes(s)
    \/ ErrorHandlerRuns

\* requests arrive while the model has ids left for them
NextServe ==
    \/ \E name \in ServedNames :
          nextId <= MaxIds /\ Receive(PostPets, "", [NoBody EXCEPT !.name = name])
    \/ \E petId \in PathPetIds, weight \in ServedWeights, date \in ServedDates :
          /\ nextId <= MaxIds
          /\ Receive(PostWeights, petId,
                     [NoBody EXCEPT !.weight = weight, !.date = date])
    \/ ServeProgress

\* every middleware and handler that was called runs on; every awaited
\* repository call resolves or rejects
SpecServe == Init /\ [][NextServe]_vars /\ WF_vars(ServeProgress)

---------------------------------------------------------------------------
(* Two requests served at once: their awaits interleave *)

ConcSlots == {"r1", "r2"}

\* the database as a test seeds it: two pets, and weights recorded for them,
\* two of them on the same day
PetA == "0192f6a0-0000-7000-8000-00000000000a"
PetB == "0192f6a0-0000-7000-8000-00000000000b"

SeedPets == <<[id |-> PetA, name |-> <<"a">>], [id |-> PetB, name |-> <<"b">>]>>

SeedWeights ==
    <<[id |-> "0192f6a0-0000-7000-8000-0000000000aa", petId |-> PetA,
       weight |-> Kg(25, 500), date |-> 0],
      [id |-> "0192f6a0-0000-7000-8000-0000000000bb", petId |-> PetB,
       weight |-> Kg(MaxWeightKg, 0), date |-> 1],
      [id |-> "0192f6a0-0000-7000-8000-0000000000bc", petId |-> PetB,
       weight |-> Kg(25, 500), date |-> 1]>>

InitConc ==
    /\ now = FirstTick
    /\ nextId = 1
    /\ petObj = None
    /\ weightObj = None
    /\ entCall = NoCall
    /\ pets = SeedPets
    /\ weights = SeedWeights
    /\ exec = [s \in ConcSlots |-> Idle]
    /\ req = NoRequest

ConcNames == {<<>>, <<"a">>}
ConcPetIds == {PetA, PetB, Uuid(1)}
ConcWeights == {0, Kg(25, 500)}
ConcDates == {CalendarDate(d) : d \in {0, MaxDay}}

\* each slot serves one request
NextConc ==
    \/ Tick
    \/ \E s \in ConcSlots, name \in ConcNames : CreatePetStart(s, name)
    \/ \E s \in ConcSlots : CreatePetSaveReturns(s)
    \/ \E s \in ConcSlots, petId \in ConcPetIds, weight \in ConcWeights,
          date \in ConcDates : CreateWeightStart(s, petId, weight, date)
    \/ \E s \in ConcSlots : CreateWeightFindReturns(s)
    \/ \E s \in ConcSlots : CreateWeightSaveReturns(s)
    \/ \E s \in ConcSlots, petId \in ConcPetIds : GetWeightsStart(s, petId)
    \/ \E s \in ConcSlots : GetWeightsFindReturns(s)
    \/ \E s \in ConcSlots : GetWeightsListReturns(s)

SpecConc == InitConc /\ [][NextConc]_vars

---------------------------------------------------------------------------

(* Properties of the entities *)

PetOps == {"new Pet", "Pet.create"}
WeightOps == {"new Weight", "Weight.create"}

IsBlank(name) == \A i \in 1..Len(name) : name[i] \in WhiteSpace

IsReal(x) == x # NaN
WeightInRange(w) == IsReal(w) /\ 0 < w /\ w <= MaxWeightKg * UnitsPerKg

MsgNameRequired == "Pet name is required"
MsgNameTooLong == "Pet name cannot exceed 255 characters"
MsgWeightPositive == "Weight must be greater than 0"
MsgWeightMax == "Weight cannot exceed 1000 kg"
MsgDateFuture == "Weight date cannot be in the future"

IsDomainError(e, message) == e.kind = "DomainError" /\ e.message = message

\* C5: Weight construction runs its checks in the order weight > 0,
\* weight <= 1000, date not after now and reports the first failing one: a
\* weight <= 0 always gives the greater-than-0 message, a weight > 1000 always
\* gives the cannot-exceed message, and the future-date message is reported
\* only when the weight is within (0, 1000] and the date is after now.
C5_CheckOrder ==
    entCall.op \in WeightOps =>
        /\ (IsReal(entCall.weight) /\ entCall.weight <= 0)
              => IsDomainError(entCall.err, MsgWeightPositive)
        /\ (IsReal(entCall.weight) /\ entCall.weight > MaxWeightKg * UnitsPerKg)
              => IsDomainError(entCall.err, MsgWeightMax)
        /\ IsDomainError(entCall.err, MsgDateFuture)
              => /\ WeightInRange(entCall.weight)
                 /\ IsReal(entCall.date) /\ entCall.date > entCall.at

\* C5 restricted to weights other than NaN, with the future-date message exact
C5_CheckOrderOnReals ==
    (entCall.op \in WeightOps /\ IsReal(entCall.weight)) =>
        /\ entCall.weight <= 0 => IsDomainError(entCall.err, MsgWeightPositive)
        /\ entCall.weight > MaxWeightKg * UnitsPerKg
              => IsDomainError(entCall.err, MsgWeightMax)
        /\ IsDomainError(entCall.err, MsgDateFuture)
              <=> /\ WeightInRange(entCall.weight)
                  /\ IsReal(entCall.date) /\ entCall.date > entCall.at

\* C6: for every weight w with 0 < w <= 1000 and every date not strictly after
\* the current instant, constructing a Weight succeeds and id, petId, weight
\* and date read back equal to the constructor arguments.
C6_ValidWeightRoundTrips ==
    (/\ entCall.op \in WeightOps
     /\ WeightInRange(entCall.weight)
     /\ ~(IsReal(entCall.date) /\ entCall.date > entCall.at))
    => /\ entCall.err = NoError
       /\ Len(weightObj) = 1
       /\ weightObj[1].id = entCall.id
       /\ weightObj[1].petId = entCall.petId
       /\ weightObj[1].weight = entCall.weight
       /\ weightObj[1].date = entCall.date

C6_Witness ==
    /\ entCall.op = "new Weight"
    /\ entCall.weight = MaxWeightKg * UnitsPerKg
    /\ entCall.date = entCall.at
    /\ entCall.at > FirstTick
    /\ weightObj = Some([id |-> "123e4567", petId |-> "123e4567",
                         weight |-> MaxWeightKg * UnitsPerKg, date |-> now])

\* C7: for every name that is empty or only whitespace, whatever its length,
\* constructing a Pet (constructor or Pet.create) fails with the DomainError
\* 'Pet name is required'.
C7_BlankNameRequired ==
    (entCall.op \in PetOps /\ IsBlank(entCall.name))
    => IsDomainError(entCall.err, MsgNameRequired) /\ petObj = None

C7_Witness ==
    /\ entCall.op = "Pet.create"
    /\ entCall.name = Rep(" ", MaxNameLength + 1)
    /\ IsDomainError(entCall.err, MsgNameRequired)

\* C8 as stated: for every name whose untrimmed length is greater than 255,
\* constructing a Pet fails with 'Pet name cannot exceed 255 characters'.
C8_LongNameTooLong ==
    (entCall.op \in PetOps /\ Len(entCall.name) > MaxNameLength)
    => IsDomainError(entCall.err, MsgNameTooLong)

\* C8 amended: a name longer than 255 whose trimmed form is non-empty fails
\* with 'Pet name cannot exceed 255 characters'; a name longer than 255 that is
\* only whitespace fails with 'Pet name is required'.
C8_LongNameRejected ==
    (entCall.op \in PetOps /\ Len(entCall.name) > MaxNameLength)
    => /\ petObj = None
       /\ IF IsBlank(entCall.name)
          THEN IsDomainError(entCall.err, MsgNameRequired)
          ELSE IsDomainError(entCall.err, MsgNameTooLong)

C8_Witness ==
    /\ entCall.op = "new Pet"
    /\ entCall.name = Rep("a", MaxNameLength + 1)
    /\ IsDomainError(entCall.err, MsgNameTooLong)

---------------------------------------------------------------------------
(* Properties of the use cases *)

CallCount(e, call) == Cardinality({i \in 1..Len(e.calls) : e.calls[i] = call})

\* C1: for every petId for which PetRepository.findById returns absent,
\* CreateWeight fails with the NotFoundError 'Pet with id {petId} not found',
\* whatever the input weight and date, and WeightRepository.save is never
\* invoked during that execution.
C1_CreateWeightAbsentPet ==
    \A s \in Slots :
        (exec[s].op = "CreateWeight" /\ exec[s].pc = "done" /\ exec[s].found = None)
        => /\ exec[s].err.kind = "NotFoundError"
           /\ exec[s].err.message = "Pet with id " \o exec[s].petId \o " not found"
           /\ CallCount(exec[s], "weightRepository.save") = 0

\* C2: for every petId for which PetRepository.findById returns absent,
\* GetWeightsByPetId fails with the NotFoundError 'Pet with id {petId} not
\* found', and WeightRepository.findByPetId is never invoked during that
\* execution.
C2_GetWeightsAbsentPet ==
    \A s \in Slots :
        (/\ exec[s].op = "GetWeightsByPetId"
         /\ exec[s].pc = "done"
         /\ exec[s].found = None)
        => /\ exec[s].err.kind = "NotFoundError"
           /\ exec[s].err.message = "Pet with id " \o exec[s].petId \o " not found"
           /\ CallCount(exec[s], "weightRepository.findByPetId") = 0

WeightViolation(weight, date, clock) ==
    \/ IsReal(weight) /\ weight <= 0
    \/ IsReal(weight) /\ weight > MaxWeightKg * UnitsPerKg
    \/ IsReal(date) /\ date > clock

FirstWeightMessage(weight, date, clock) ==
    IF IsReal(weight) /\ weight <= 0 THEN MsgWeightPositive
    ELSE IF IsReal(weight) /\ weight > MaxWeightKg * UnitsPerKg THEN MsgWeightMax
         ELSE MsgDateFuture

\* C3: when the pet exists and the input weight or date violates a Weight
\* invariant (weight <= 0, weight > 1000, date after now), CreateWeight fails
\* with the DomainError raised by the Weight factory, same kind and message,
\* and WeightRepository.save is never invoked.
C3_CreateWeightInvalidInput ==
    \A s \in Slots :
        (/\ exec[s].op = "CreateWeight"
         /\ exec[s].found # None
         /\ WeightViolation(exec[s].weight, ParseDate(exec[s].date), exec[s].at))
        => /\ exec[s].pc = "done"
           /\ IsDomainError(exec[s].err,
                 FirstWeightMessage(exec[s].weight, ParseDate(exec[s].date),
                                    exec[s].at))
           /\ CallCount(exec[s], "weightRepository.save") = 0
           /\ exec[s].out = <<>>

\* C1 restricted to ids other than the empty string
C1_NonEmptyIdNotFound ==
    \A s \in Slots :
        (/\ exec[s].op = "CreateWeight"
         /\ exec[s].pc = "done"
         /\ exec[s].found = None)
        => /\ exec[s].err.kind = "NotFoundError"
           /\ exec[s].petId # ""
                 => exec[s].err.message
                       = "Pet with id " \o exec[s].petId \o " not found"
           /\ exec[s].calls = <<"petRepository.findById">>

\* C2 restricted to ids other than the empty string
C2_NonEmptyIdNotFound ==
    \A s \in Slots :
        (/\ exec[s].op = "GetWeightsByPetId"
         /\ exec[s].pc = "done"
         /\ exec[s].found = None)
        => /\ exec[s].err.kind = "NotFoundError"
           /\ exec[s].petId # ""
                 => exec[s].err.message
                       = "Pet with id " \o exec[s].petId \o " not found"
           /\ exec[s].calls = <<"petRepository.findById">>

C3_Witness ==
    \E s \in Slots :
        /\ exec[s].op = "CreateWeight"
        /\ exec[s].pc = "done"
        /\ exec[s].found # None
        /\ exec[s].weight = Kg(25, 500)
        /\ exec[s].date = CalendarDate(MaxDay)
        /\ IsDomainError(exec[s].err, MsgDateFuture)
        /\ exec[s].calls = <<"petRepository.findById">>

\* C4: when the input name violates a Pet invariant, CreatePet fails with the
\* DomainError raised by the Pet factory, unchanged, and PetRepository.save is
\* never invoked; CreatePet performs no existence lookup.
C4_CreatePetInvalidName ==
    \A s \in Slots :
        exec[s].op = "CreatePet" =>
            /\ CallCount(exec[s], "petRepository.findById") = 0
            /\ (IsBlank(exec[s].name) \/ Len(exec[s].name) > MaxNameLength)
                  => /\ exec[s].pc = "done"
                     /\ IsDomainError(exec[s].err,
                           IF IsBlank(exec[s].name) THEN MsgNameRequired
                           ELSE MsgNameTooLong)
                     /\ exec[s].calls = <<>>
                     /\ exec[s].out = <<>>

C4_Witness ==
    \E s \in Slots :
        /\ exec[s].op = "CreatePet"
        /\ exec[s].pc = "done"
        /\ exec[s].name = Rep("a", MaxNameLength + 1)
        /\ IsDomainError(exec[s].err, MsgNameTooLong)
        /\ exec[s].calls = <<>>

\* C10: for an existing petId and an input with 0 < weight <= 1000 and a
\* calendar-date string that is not in the future, CreateWeight invokes
\* WeightRepository.save exactly once with a Weight carrying that petId and
\* the weight as given, and returns {id, petId, weight, date} built from the
\* saved Weight: petId and weight equal the inputs and date is the input
\* calendar-date string.
C10_CreateWeightSucceeds ==
    \A s \in Slots :
        (/\ exec[s].op = "CreateWeight"
         /\ exec[s].found # None
         /\ WeightInRange(exec[s].weight)
         /\ exec[s].date.kind = "date"
         /\ ParseDate(exec[s].date) <= exec[s].at)
        => /\ exec[s].pc \in {"awaitSave", "done"}
           /\ CallCount(exec[s], "weightRepository.save") = 1
           /\ Len(exec[s].entity) = 1
           /\ exec[s].entity[1].petId = exec[s].petId
           /\ exec[s].entity[1].weight = exec[s].weight
           /\ exec[s].pc = "done"
                 => /\ exec[s].err = NoError
                    /\ exec[s].out = <<[id |-> exec[s].entity[1].id,
                                        petId |-> exec[s].petId,
                                        weight |-> exec[s].weight,
                                        date |-> exec[s].date]>>
                    /\ \E i \in 1..Len(weights) :
                          /\ weights[i].id = exec[s].entity[1].id
                          /\ weights[i].petId = exec[s].petId
                          /\ weights[i].weight = exec[s].weight

C10_Witness ==
    \E s \in Slots :
        /\ exec[s].op = "CreateWeight"
        /\ exec[s].pc = "done"
        /\ exec[s].weight = Kg(25, 500)
        /\ exec[s].date = CalendarDate(MaxDay)
        /\ Len(exec[s].out) = 1
        /\ exec[s].out[1].weight = Kg(25, 500)
        /\ exec[s].out[1].date = CalendarDate(MaxDay)
        /\ exec[s].out[1].petId = exec[s].petId

IsValidName(name) == Len(name) \in 1..MaxNameLength /\ ~IsBlank(name)

RowsWithId(table, id) == {i \in 1..Len(table) : table[i].id = id}

\* C11: for every valid name, CreatePet invokes PetRepository.save exactly
\* once, with a Pet whose name equals the input and whose id is freshly
\* generated (no row of the store carries it before the save), and returns
\* {id, name} taken from the Pet that save returned: the output name equals
\* the input, the output id is the id of the saved Pet and is a 36-character
\* string, and the store holds exactly one pet under that id, with that name.
C11_CreatePetSucceeds ==
    \A s \in Slots :
        (exec[s].op = "CreatePet" /\ IsValidName(exec[s].name))
        => /\ exec[s].pc \in {"awaitSave", "done"}
           /\ exec[s].calls = <<"petRepository.save">>
           /\ Len(exec[s].entity) = 1
           /\ exec[s].entity[1].name = exec[s].name
           /\ Len(exec[s].entity[1].id) = UuidLength
           /\ RowsWithId(weights, exec[s].entity[1].id) = {}
           /\ exec[s].pc = "awaitSave"
                 => RowsWithId(pets, exec[s].entity[1].id) = {}
           /\ exec[s].pc = "done"
                 => /\ exec[s].err = NoError
                    /\ exec[s].out = <<[id |-> exec[s].entity[1].id,
                                        name |-> exec[s].name]>>
                    /\ \E i \in 1..Len(pets) :
                          /\ RowsWithId(pets, exec[s].entity[1].id) = {i}
                          /\ pets[i].name = exec[s].name

C11_Witness ==
    \E s \in Slots :
        /\ exec[s].op = "CreatePet"
        /\ exec[s].pc = "done"
        /\ exec[s].name = <<" ", "a", "\t">>
        /\ Len(pets) = 2
        /\ exec[s].out = <<[id |-> pets[2].id, name |-> <<" ", "a", "\t">>]>>
        /\ pets[1].id # pets[2].id

GetWeightsSucceeded(s) ==
    /\ exec[s].op = "GetWeightsByPetId"
    /\ exec[s].pc = "done"
    /\ exec[s].err = NoError

\* the order of calendar-date strings YYYY-MM-DD is the order of their days
DateNotEarlier(d1, d2) == d1.kind = "date" /\ d2.kind = "date" /\ d1.day >= d2.day

\* C12: for an existing pet, after any sequence of weight insertions in any
\* order, GetWeightsByPetId returns that pet's records ordered by date
\* descending: the output holds the pet's stored records, each once, and for
\* every two adjacent elements the date of the first is not earlier than the
\* date of the second.
C12_NewestFirst ==
    \A s \in Slots :
        GetWeightsSucceeded(s)
        => /\ exec[s].found # None
           /\ Len(exec[s].out) = Cardinality({i \in 1..Len(weights) :
                                                weights[i].petId = exec[s].petId})
           /\ \A i \in 1..Len(weights) :
                 weights[i].petId = exec[s].petId
                 => \E k \in 1..Len(exec[s].out) : exec[s].out[k].id = weights[i].id
           /\ \A k \in 1..(Len(exec[s].out) - 1) :
                 DateNotEarlier(exec[s].out[k].date, exec[s].out[k + 1].date)

C12_Witness ==
    \E s \in Slots :
        /\ GetWeightsSucceeded(s)
        /\ Len(weights) = 2
        /\ weights[1].date < weights[2].date
        /\ Len(exec[s].out) = 2
        /\ exec[s].out[1].id = weights[2].id
        /\ exec[s].out[2].id = weights[1].id
        /\ exec[s].out[1].date.day > exec[s].out[2].date.day

\* C13: for an existing pet, GetWeightsByPetId returns exactly one output
\* record per Weight that findByPetId returned, in the order the repository
\* returned them, each with id, petId and weight copied and date rendered as
\* the calendar-date string of the Weight's date; every returned record has
\* petId equal to the requested petId; a pet with no records yields the empty
\* list, not an error.
C13_OneOutputPerWeight ==
    \A s \in Slots :
        /\ GetWeightsSucceeded(s)
           => /\ Len(exec[s].out) = Len(exec[s].listed)
              /\ \A k \in 1..Len(exec[s].out) :
                    /\ exec[s].out[k].id = exec[s].listed[k].id
                    /\ exec[s].out[k].petId = exec[s].listed[k].petId
                    /\ exec[s].out[k].weight = exec[s].listed[k].weight
                    /\ exec[s].out[k].date
                          = CalendarDate(exec[s].listed[k].date \div TicksPerDay)
                    /\ exec[s].out[k].petId = exec[s].petId
        /\ (/\ exec[s].op = "GetWeightsByPetId"
            /\ exec[s].pc = "done"
            /\ exec[s].found # None
            /\ \A i \in 1..Len(weights) : weights[i].petId # exec[s].petId)
           => exec[s].err = NoError /\ exec[s].out = <<>>

C13_Witness ==
    \E s \in Slots :
        /\ GetWeightsSucceeded(s)
        /\ Len(exec[s].listed) = 2
        /\ exec[s].listed[1].date > exec[s].listed[2].date
        /\ exec[s].listed[1].weight = Kg(MaxWeightKg, 0)
        /\ exec[s].listed[2].weight = Kg(25, 500)
        /\ exec[s].out[1].weight = Kg(MaxWeightKg, 0)
        /\ exec[s].out[2].weight = Kg(25, 500)
        /\ exec[s].out[1].petId = exec[s].petId

\* what one complete execution of GetWeightsByPetId can answer for petId
\* against the present store: its error and its output
GetWeightsOutcomes(petId) ==
    LET e == GetWeightsAfterFind(GetWeightsExecute(petId), PetFindById(petId)) IN
    IF e.pc = "done" THEN {[err |-> e.err, out |-> e.out]}
    ELSE {[err |-> d.err, out |-> d.out] :
            d \in {GetWeightsListed(e, rows, now) : rows \in WeightFindRows(petId)}}

C14_ReadsRepeatOnDistinctDates ==
    \A petId \in InputPetIds :
        (\A i, j \in 1..Len(weights) :
            (weights[i].petId = petId /\ weights[j].petId = petId
             /\ weights[i].date = weights[j].date) => i = j)
        => \A a, b \in GetWeightsOutcomes(petId) : a = b

\* C14, second part: no step of GetWeightsByPetId changes the store
C14_ReadsLeaveStore ==
    [][(\E s \in Slots : exec[s].op = "GetWeightsByPetId"
                         \/ exec'[s].op = "GetWeightsByPetId")
       => (pets' = pets /\ weights' = weights)]_vars

ReadCalls == {"petRepository.findById", "weightRepository.findByPetId"}
WriteCalls == {"petRepository.save", "weightRepository.save"}

Reads(e) == Cardinality({i \in 1..Len(e.calls) : e.calls[i] \in ReadCalls})
Writes(e) == Cardinality({i \in 1..Len(e.calls) : e.calls[i] \in WriteCalls})

\* the repository calls of an execution that have not resolved yet: execute
\* awaits each call before the next statement
InFlight(e) ==
    IF e.pc \in {"awaitFindPet", "awaitSave", "awaitList"}
    THEN {Len(e.calls)} ELSE {}

\* C19 as stated: every execution of CreatePet, CreateWeight and
\* GetWeightsByPetId issues exactly one repository read and at most one
\* repository write.
C19_OneReadPerExecution ==
    \A s \in Slots :
        exec[s].pc = "done" => Reads(exec[s]) = 1 /\ Writes(exec[s]) <= 1

\* C19 amended: CreatePet issues no read and at most one write (save, only
\* for a valid name); CreateWeight issues exactly one read (findById) and
\* then at most one write (save, only when the pet exists and the Weight is
\* valid); GetWeightsByPetId issues findById and then, only when the pet
\* exists, a second read (findByPetId), and no write.  The calls of one
\* execution are issued one after the other: at most one is in flight, and it
\* is the last one issued.
C19_CallsPerExecution ==
    \A s \in Slots :
        /\ exec[s].op = "CreatePet"
           => /\ exec[s].calls \in {<<>>, <<"petRepository.save">>}
              /\ exec[s].calls # <<>> <=> IsValidName(exec[s].name)
        /\ (exec[s].op = "CreateWeight" /\ exec[s].pc # "awaitFindPet")
           => /\ exec[s].calls \in {<<"petRepository.findById">>,
                                    <<"petRepository.findById",
                                      "weightRepository.save">>}
              /\ Writes(exec[s]) = 1
                    <=> (exec[s].found # None /\ Len(exec[s].entity) = 1)
        /\ (exec[s].op = "GetWeightsByPetId" /\ exec[s].pc # "awaitFindPet")
           => /\ exec[s].calls \in {<<"petRepository.findById">>,
                                    <<"petRepository.findById",
                                      "weightRepository.findByPetId">>}
              /\ Reads(exec[s]) = 2 <=> exec[s].found # None
        /\ exec[s].pc = "awaitFindPet" => exec[s].calls = <<"petRepository.findById">>
        /\ Cardinality(InFlight(exec[s])) <= 1
        /\ exec[s].pc = "done" => InFlight(exec[s]) = {}
        /\ exec[s].pc = "awaitSave"
              => exec[s].calls[Len(exec[s].calls)] \in WriteCalls
        /\ exec[s].pc = "awaitList"
              => exec[s].calls[Len(exec[s].calls)] = "weightRepository.findByPetId"

C19_Witness ==
    \E s \in Slots :
        /\ GetWeightsSucceeded(s)
        /\ Len(exec[s].out) = 1
        /\ exec[s].calls = <<"petRepository.findById", "weightRepository.findByPetId">>

CommitFailures == {"NotFoundError", "DomainError"}

SaveReturned(s, op) ==
    exec[s].op = op /\ exec[s].pc = "awaitSave" /\ exec'[s].pc = "done"

\* C20: no use case commits partially.  An execution that fails with
\* NotFoundError or DomainError has written nothing, a successful CreatePet
\* or CreateWeight has written once, and nothing but the return of a save
\* changes the store; the save of a CreatePet adds exactly
\* one Pet, under an id no row carried, and changes no Weight and no other
\* Pet; the save of a CreateWeight adds exactly one Weight and changes no Pet
\* and no other Weight.
C20_NoPartialCommit ==
    /\ [](\A s \in Slots :
            /\ (exec[s].pc = "done" /\ exec[s].err.kind \in CommitFailures)
               => Writes(exec[s]) = 0
            /\ (/\ exec[s].pc = "done"
                /\ exec[s].err = NoError
                /\ exec[s].op \in {"CreatePet", "CreateWeight"})
               => Writes(exec[s]) = 1)
    /\ [][IF \E s \in Slots : SaveReturned(s, "CreatePet")
          THEN /\ Len(pets') = Len(pets) + 1
               /\ SubSeq(pets', 1, Len(pets)) = pets
               /\ RowsWithId(pets, pets'[Len(pets')].id) = {}
               /\ weights' = weights
               /\ \E s \in Slots :
                     /\ SaveReturned(s, "CreatePet")
                     /\ exec'[s].err = NoError
                           => exec'[s].out = <<pets'[Len(pets')]>>
          ELSE IF \E s \in Slots : SaveReturned(s, "CreateWeight")
               THEN /\ Len(weights') = Len(weights) + 1
                    /\ SubSeq(weights', 1, Len(weights)) = weights
                    /\ RowsWithId(weights, weights'[Len(weights')].id) = {}
                    /\ pets' = pets
                    /\ \E s \in Slots :
                          /\ SaveReturned(s, "CreateWeight")
                          /\ exec'[s].err = NoError
                                => exec'[s].out[1].id = weights'[Len(weights')].id
               ELSE pets' = pets /\ weights' = weights]_vars

C20_Witness ==
    \E s \in Slots :
        /\ exec[s].op = "CreateWeight"
        /\ exec[s].pc = "done"
        /\ exec[s].err = NoError
        /\ Len(pets) = 1
        /\ Len(weights) = 2
        /\ weights[1].id # weights[2].id
        /\ exec[s].out[1].id = weights[2].id

\* the error (or NoError) of one complete execution of CreateWeight for this
\* input against the present store, with the clock reading clock
CreateWeightOutcome(petId, weight, date, clock) ==
    LET e == CreateWeightAfterFind(CreateWeightExecute(petId, weight, date),
                                   PetFindById(petId), GhostId, clock)
    IN IF e.pc = "done" THEN e.err ELSE CreateWeightSaved(e, clock).err

CreatePetOutcome(name) ==
    LET e == CreatePetExecute(name, GhostId) IN
    IF e.pc = "done" THEN e.err ELSE CreatePetSaved(e).err

GetWeightsErrors(petId) == {o.err : o \in GetWeightsOutcomes(petId)}

LaterTicks == now..LastTick

\* C21 as stated: all failures are deterministic given the same input and
\* stored state: if an execution fails, any other execution of the same use
\* case with the same input against the same stored state fails with the same
\* error kind and message.
C21_FailuresRepeat ==
    \A petId \in InputPetIds, weight \in InputWeights, date \in InputDates,
       clock \in LaterTicks :
        CreateWeightOutcome(petId, weight, date, now) # NoError
        => CreateWeightOutcome(petId, weight, date, clock)
              = CreateWeightOutcome(petId, weight, date, now)

\* C21 amended: failures are deterministic given the same input, the same
\* stored state and the same reading of the clock.  A CreatePet failure, a
\* NotFoundError and a DomainError about the weight repeat at any later
\* instant; 'Weight date cannot be in the future' is raised exactly while the
\* input date is after the clock, repeats for as long as that is so, and turns
\* into success once the clock has reached the date.
C21_FailuresRepeatUntilDateArrives ==
    /\ \A petId \in InputPetIds, weight \in InputWeights, date \in InputDates,
          clock \in LaterTicks :
          LET first == CreateWeightOutcome(petId, weight, date, now)
              again == CreateWeightOutcome(petId, weight, date, clock)
          IN first # NoError =>
                IF IsDomainError(first, MsgDateFuture)
                THEN /\ ParseDate(date) > now
                     /\ IF ParseDate(date) > clock THEN again = first
                        ELSE again = NoError
                ELSE again = first
    /\ \A petId \in InputPetIds :
          \A a, b \in GetWeightsErrors(petId) : a = b
    /\ \A s \in Slots :
          (exec[s].op = "CreatePet" /\ exec[s].pc = "done")
          => exec[s].err = CreatePetOutcome(exec[s].name)

C21_Witness ==
    \E s \in Slots :
        /\ exec[s].op = "CreateWeight"
        /\ exec[s].pc = "done"
        /\ IsDomainError(exec[s].err, MsgDateFuture)
        /\ exec[s].at < ParseDate(exec[s].date)
        /\ ParseDate(exec[s].date) <= now
        /\ CreateWeightOutcome(exec[s].petId, exec[s].weight, exec[s].date, now)
              = NoError

---------------------------------------------------------------------------
(* Properties of the error handler *)

Responses(r) == {i \in 1..Len(r.effects) : r.effects[i].op = "res.json"}

Handled ==
    req.route = "errorHandler" /\ req.pc = "responded" /\ Len(req.thrown) = 1

TheResponse == req.effects[CHOOSE i \in Responses(req) : TRUE]

\* C15: the boundary error handler maps every error to exactly one response,
\* by kind: a ValidationError gives 400 {error: 'Validation failed', details:
\* the list of messages}; a NotFoundError gives 404 {error: message}, the
\* message being '{resource} with id {id} not found' when an id was given and
\* '{resource} not found' otherwise; a DomainError gives 400 {error: message};
\* any other error gives 500 {error: 'Internal server error'}.
C15_OneResponsePerKind ==
    Handled =>
        /\ Cardinality(Responses(req)) = 1
        /\ LET t == req.thrown[1]
               r == TheResponse
           IN CASE t.class = "ValidationError"
                     -> /\ r.status = 400
                        /\ r.body = [error |-> "Validation failed",
                                     details |-> t.errors]
                [] t.class = "NotFoundError"
                     -> /\ r.status = 404
                        /\ r.body = [error |->
                              IF t.id # None
                              THEN t.resource \o " with id " \o t.id[1] \o " not found"
                              ELSE t.resource \o " not found"]
                [] t.class = "DomainError"
                     -> r.status = 400 /\ r.body = [error |-> t.message]
                [] OTHER
                     -> /\ r.status = 500
                        /\ r.body = [error |-> "Internal server error"]

\* C15 with the id form of the message only for ids other than the empty
\* string, and the 404 body being the error's message
C15_OneResponsePerKindNonEmptyId ==
    Handled =>
        /\ Cardinality(Responses(req)) = 1
        /\ LET t == req.thrown[1]
               r == TheResponse
           IN CASE t.class = "ValidationError"
                     -> /\ r.status = 400
                        /\ r.body = [error |-> "Validation failed",
                                     details |-> t.errors]
                [] t.class = "NotFoundError"
                     -> /\ r.status = 404
                        /\ r.body = [error |-> req.error[1].message]
                        /\ r.body.error =
                              IF t.id # None /\ t.id # Some("")
                              THEN t.resource \o " with id " \o t.id[1] \o " not found"
                              ELSE t.resource \o " not found"
                [] t.class = "DomainError"
                     -> r.status = 400 /\ r.body = [error |-> t.message]
                [] OTHER
                     -> /\ r.status = 500
                        /\ r.body = [error |-> "Internal server error"]

Unexpected(class) == class \notin {"ValidationError", "NotFoundError", "DomainError"}

\* C16: for any two errors that are none of the three kinds the response is
\* identical, whatever their classes and messages: status 500 and the body
\* exactly {error: 'Internal server error'}, so that no detail of an
\* unexpected error is observable in the response; the error is logged, once
\* and whole, before the response is sent.
C16_UnexpectedErrorsLookAlike ==
    (Handled /\ Unexpected(req.thrown[1].class))
    => /\ Len(req.effects) = 2
       /\ req.effects[1] = ConsoleError(OtherError(req.thrown[1].class,
                                                   req.thrown[1].message))
       /\ req.effects[2] = ResJson(500, [error |-> "Internal server error"])

C16_Witness ==
    /\ Handled
    /\ req.thrown[1].class = "QueryFailedError"
    /\ req.thrown[1].message = "Unexpected database error"
    /\ req.effects[1].op = "console.error"
    /\ req.effects[1].error.message = "Unexpected database error"
    /\ req.effects[2].op = "res.json"
    /\ req.effects[2].status = 500

---------------------------------------------------------------------------
(* Properties of the request boundary *)

ParamViolations(r) == IF r.route = PostWeights THEN PetIdParamDTO(r.petId) ELSE {}

BodyViolations(r) ==
    CASE r.route = PostPets -> CreatePetDTO(r.body)
      [] r.route = PostWeights -> CreateWeightDTO(r.body)
      [] OTHER -> {}

Validated(r) == r.route \in {PostPets, PostWeights}
                /\ r.pc \notin {"validateParams", "validateBody"}

NothingExecuted == ~req.executed /\ \A s \in Slots : exec[s] = Idle

\* C17 as stated: a request whose body or petId path parameter violates a
\* boundary rule is rejected with a ValidationError carrying one message for
\* each violated rule, and the use case is never executed for it.
C17_EveryViolationReported ==
    LET violations == ParamViolations(req) \cup BodyViolations(req) IN
    violations # {} =>
        /\ NothingExecuted
        /\ Validated(req)
              => /\ req.pc \in {"errorHandler", "responded"}
                 /\ req.error = Some(ValidationError(violations))

\* C17 amended: the path parameters are validated before the body and the
\* first failing validator ends the chain.  A request whose petId violates
\* its rule is rejected with a ValidationError carrying the petId message
\* alone, whatever its body; a request with a valid petId (or none) whose body
\* violates a rule is rejected with a ValidationError carrying one message
\* for each violated rule of the body.  In both cases the use case is never
\* executed: no entity is constructed and no repository call is made.
C17_FirstFailingValidatorReported ==
    LET violations == IF ParamViolations(req) # {} THEN ParamViolations(req)
                      ELSE BodyViolations(req)
    IN violations # {} =>
        /\ NothingExecuted
        /\ Validated(req)
              => /\ req.pc \in {"errorHandler", "responded"}
                 /\ req.error = Some(ValidationError(violations))
                 /\ req.pc = "responded"
                       => req.effects
                             = <<ResJson(400, [error |-> "Validation failed",
                                               details |-> violations])>>

C17_Witness ==
    /\ req.route = PostWeights
    /\ req.pc = "responded"
    /\ req.petId = Uuid(1)
    /\ Len(pets) = 1
    /\ req.body.weight = JsUndefined
    /\ req.body.date.type = "string"
    /\ Len(req.error) = 1
    /\ req.error[1].kind = "ValidationError"
    /\ Cardinality(req.error[1].errors) = 4
    /\ ~req.executed

Answered(route) == req.route = route /\ req.pc = "responded"

\* C18: every POST /pets request is answered either with 201 and {id, name}
\* or, when the name is rejected, with 400 and the shape {error: 'Validation
\* failed', details: [...]}, whatever makes the name unacceptable (missing,
\* not a string, empty, only whitespace, longer than 255).
C18_PostPetsShapes ==
    Answered(PostPets) =>
        /\ Cardinality(Responses(req)) = 1
        /\ \/ /\ TheResponse.status = 201
              /\ DOMAIN TheResponse.body = {"id", "name"}
              /\ TheResponse.body.name = req.body.name.str
           \/ /\ TheResponse.status = 400
              /\ DOMAIN TheResponse.body = {"error", "details"}
              /\ TheResponse.body.error = "Validation failed"
              /\ TheResponse.body.details # {}

\* C18 for names other than non-empty strings of whitespace, and what those
\* are answered with
C18_PostPetsShapesButBlank ==
    Answered(PostPets) =>
        /\ Cardinality(Responses(req)) = 1
        /\ IF IsValidName(IF IsString(req.body.name) THEN req.body.name.str ELSE <<>>)
           THEN /\ TheResponse.status = 201
                /\ DOMAIN TheResponse.body = {"id", "name"}
                /\ TheResponse.body.name = req.body.name.str
           ELSE IF CreatePetDTO(req.body) # {}
                THEN /\ TheResponse.status = 400
                     /\ TheResponse.body = [error |-> "Validation failed",
                                            details |-> CreatePetDTO(req.body)]
                ELSE /\ IsBlank(req.body.name.str)
                     /\ TheResponse.status = 400
                     /\ TheResponse.body = [error |-> MsgNameRequired]

\* the bodies a POST weights request can carry
WeightBodies ==
    {[NoBody EXCEPT !.weight = weight, !.date = date] :
        weight \in BodyWeights \cup {JsNumber(n) : n \in Numbers \cup {MinWeight}},
        date \in BodyDates}

\* C28: the boundary rules for the weight are at least as strict as the
\* entity's.  Every body CreateWeightDTO accepts carries a weight that passes
\* both weight checks of the Weight entity, so the only DomainError a POST
\* weights request can end in is 'Weight date cannot be in the future',
\* answered 400 with the single-message shape; a weight in (0, 0.01), which
\* the entity accepts, is rejected at the boundary.
C28_BoundaryAtLeastAsStrict ==
    /\ \A body \in WeightBodies :
          CreateWeightDTO(body) = {}
             => /\ WeightInRange(body.weight.num)
                /\ \A d \in Dates, t \in Dates :
                      WeightValidate(body.weight.num, d, t)
                         \in {NoError, DomainError(MsgDateFuture)}
    /\ (req.route = PostWeights /\ Len(req.error) = 1
                                /\ req.error[1].kind = "DomainError")
          => /\ req.error[1] = DomainError(MsgDateFuture)
             /\ req.executed
             /\ req.pc = "responded"
                   => req.effects = <<ResJson(400, [error |-> MsgDateFuture])>>
    /\ (req.route = PostWeights /\ IsNumber(req.body.weight)
           /\ 0 < req.body.weight.num /\ req.body.weight.num < MinWeight)
          => /\ WeightInRange(req.body.weight.num)
             /\ ~req.executed
             /\ Validated(req) => /\ Len(req.error) = 1
                                  /\ req.error[1].kind = "ValidationError"

\* a future date reaching the entity through the boundary
C28_Witness ==
    /\ Answered(PostWeights)
    /\ req.body.weight = JsNumber(Kg(25, 500))
    /\ req.executed
    /\ req.error = Some(DomainError(MsgDateFuture))
    /\ req.effects = <<ResJson(400, [error |-> MsgDateFuture])>>

\* a weight of 0.005 kg for an existing pet, rejected by the boundary
C28_RejectedAtBoundary ==
    /\ Answered(PostWeights)
    /\ req.body.weight = JsNumber(Kg(0, 5))
    /\ req.petId = Uuid(1)
    /\ Len(pets) = 1
    /\ req.effects = <<ResJson(400, [error |-> "Validation failed",
                                     details |-> {"Weight must be greater than 0"}])>>

InService == req.route \in {PostPets, PostWeights} /\ req.pc # "responded"

\* C29: every request to POST /pets and POST /pets/{petId}/weights eventually
\* receives exactly one response, given that repository calls resolve or
\* reject: no response is sent before the chain ends, the chain ends in one
\* res.json with status 201, 400, 404 or 500, and it always ends.
C29_ExactlyOneResponse ==
    /\ [](/\ InService => Responses(req) = {}
          /\ (req.route \in {PostPets, PostWeights} /\ req.pc = "responded")
                => /\ Cardinality(Responses(req)) = 1
                   /\ TheResponse.status \in {201, 400, 404, 500}
                   /\ TheResponse.status = 201 <=> req.error = None)
    /\ (InService ~> req.pc = "responded")

\* a request answered 500 after its save was rejected
C29_Witness ==
    /\ Answered(PostPets)
    /\ req.executed
    /\ Len(req.error) = 1
    /\ req.error[1].kind = "QueryFailedError"
    /\ req.effects[Len(req.effects)] = ResJson(500, [error |-> "Internal server error"])
    /\ pets = <<>>

---------------------------------------------------------------------------
(* Properties of the setters *)

WeightSetterOps == {"set weight", "set date"}

\* C22: Pet.setName, Weight.setWeight and Weight.setDate assign the new value
\* before validating: whether or not the setter raises, the entity afterwards
\* holds the value given (after a DomainError the rejected value, with no
\* rollback; after a success the getter returns the new value), and what a
\* setter raises is a DomainError.
C22_AssignBeforeValidate ==
    /\ entCall.op = "set name"
          => /\ Len(petObj) = 1
             /\ petObj[1].name = entCall.name
             /\ entCall.err.kind \in {"none", "DomainError"}
             /\ ~IsValidName(entCall.name) => entCall.err.kind = "DomainError"
    /\ entCall.op = "set weight"
          => /\ Len(weightObj) = 1
             /\ weightObj[1].weight = entCall.weight
             /\ entCall.err.kind \in {"none", "DomainError"}
             /\ (IsReal(entCall.weight) /\ ~WeightInRange(entCall.weight))
                   => entCall.err.kind = "DomainError"
    /\ entCall.op = "set date"
          => /\ Len(weightObj) = 1
             /\ weightObj[1].date = entCall.date
             /\ entCall.err.kind \in {"none", "DomainError"}
             /\ (IsReal(entCall.date) /\ entCall.date > entCall.at)
                   => entCall.err.kind = "DomainError"

C22_Witness ==
    /\ entCall.op = "set weight"
    /\ entCall.weight = 0
    /\ IsDomainError(entCall.err, MsgWeightPositive)
    /\ weightObj = Some([id |-> "123e4567", petId |-> "123e4567", weight |-> 0,
                         date |-> FirstTick])

\* C23: across every sequence of setter calls a Weight keeps the id and the
\* petId it was constructed with, set weight leaves the date as it was and
\* set date leaves the weight as it was; a Pet keeps its id across set name.
C23_SettersKeepTheRest ==
    [][/\ entCall'.op \in WeightSetterOps
             => /\ Len(weightObj) = 1 /\ Len(weightObj') = 1
                /\ weightObj'[1].id = weightObj[1].id
                /\ weightObj'[1].petId = weightObj[1].petId
                /\ entCall'.op = "set weight"
                      => weightObj'[1].date = weightObj[1].date
                /\ entCall'.op = "set date"
                      => weightObj'[1].weight = weightObj[1].weight
       /\ entCall'.op = "set name"
             => /\ Len(petObj) = 1 /\ Len(petObj') = 1
                /\ petObj'[1].id = petObj[1].id]_vars

\* a set weight that failed after a set date had changed the date
C23_Witness ==
    /\ entCall.op = "set weight"
    /\ entCall.err # NoError
    /\ Len(weightObj) = 1
    /\ weightObj[1].date = FirstTick + 1
    /\ weightObj[1].id = "123e4567"

\* C25: set weight and set date each re-run the three checks, in the order
\* weight > 0, weight <= 1000, date not after now, on the fields as they are
\* after the assignment and against the clock read at the setter call; the
\* error raised is that of the first failing check, and there is none only
\* when all three pass.  So set date on a Weight left with an invalid weight
\* reports the weight message.
C25_SettersRevalidateInOrder ==
    entCall.op \in WeightSetterOps =>
        LET w == weightObj[1].weight
            d == weightObj[1].date
        IN  /\ (IsReal(w) /\ w <= 0) => IsDomainError(entCall.err, MsgWeightPositive)
            /\ (IsReal(w) /\ w > MaxWeightKg * UnitsPerKg)
                  => IsDomainError(entCall.err, MsgWeightMax)
            /\ IsDomainError(entCall.err, MsgDateFuture)
                  <=> (WeightInRange(w) /\ IsReal(d) /\ d > entCall.at)
            /\ entCall.err = NoError
                  <=> (WeightInRange(w) /\ ~(IsReal(d) /\ d > entCall.at))

\* C25 for a Weight whose weight is not NaN
C25_SettersRevalidateInOrderOnReals ==
    (entCall.op \in WeightSetterOps /\ IsReal(weightObj[1].weight))
       => C25_SettersRevalidateInOrder

\* set date, with a date in the past, on a Weight left with weight 0
C25_SetDateReportsWeight ==
    /\ entCall.op = "set date"
    /\ entCall.date = 0
    /\ weightObj[1].weight = 0
    /\ IsDomainError(entCall.err, MsgWeightPositive)

\* a date valid at the setter call that came after the construction
C25_FreshNow ==
    /\ entCall.op = "set date"
    /\ entCall.date = FirstTick + 1
    /\ entCall.at = FirstTick + 1
    /\ entCall.err = NoError

C30_Rebuilt ==
    /\ entCall.op = "save Weight"
    /\ entCall.at = FirstTick + 1
    /\ Len(weightObj) = 1
    /\ weightObj[1].date = FirstTick

\* every stored row can be rebuilt into its entity at any later instant
C30_StoredRecordsRebuild ==
    /\ \A i \in 1..Len(weights) :
          \A t \in LaterTicks : WeightToDomain(weights[i], t).err = NoError
    /\ \A i \in 1..Len(pets) : NewPet(pets[i].id, pets[i].name).err = NoError

---------------------------------------------------------------------------
(* Properties of requests served at once *)

\* the pet a request is about: the one named in its path, or the one it creates
Target(e) ==
    CASE e.op \in {"CreateWeight", "GetWeightsByPetId"} -> e.petId
      [] e.op = "CreatePet" /\ e.entity # None -> e.entity[1].id
      [] OTHER -> "none"

OtherSlot(s) == CHOOSE t \in ConcSlots : t # s

OnDifferentPets(s) ==
    /\ exec[s].pc = "done"
    /\ Target(exec[OtherSlot(s)]) # Target(exec[s])

PetStored(id) == \E i \in 1..Len(pets) : pets[i].id = id

RowsOfPet(petId) == {i \in 1..Len(weights) : weights[i].petId = petId}

SeedIds == {SeedWeights[i].id : i \in 1..Len(SeedWeights)}

\* what each request yields when it runs alone, from the rows of its own pet
AloneCreatePet(e) ==
    IF PetValidate(e.name) # NoError
    THEN e.err = PetValidate(e.name) /\ e.out = <<>>
    ELSE /\ e.err = NoError
         /\ e.out = <<[id |-> e.entity[1].id, name |-> e.name]>>
         /\ \E i \in 1..Len(pets) : pets[i] = [id |-> e.entity[1].id, name |-> e.name]

AloneCreateWeight(e) ==
    LET date == ParseDate(e.date) IN
    IF ~PetStored(e.petId)
    THEN e.err = NotFoundError("Pet", e.petId) /\ e.out = <<>> /\ e.entity = None
    ELSE IF WeightValidate(e.weight, date, e.at) # NoError
         THEN /\ e.err = WeightValidate(e.weight, date, e.at)
              /\ e.out = <<>>
              /\ e.entity = None
         ELSE /\ e.err = NoError
              /\ e.out = <<[id |-> e.entity[1].id, petId |-> e.petId,
                            weight |-> e.weight, date |-> ToISODate(date)]>>
              /\ \E i \in RowsOfPet(e.petId) :
                    weights[i] = [id |-> e.entity[1].id, petId |-> e.petId,
                                  weight |-> e.weight, date |-> e.date.day]

AloneGetWeights(e) ==
    IF ~PetStored(e.petId)
    THEN e.err = NotFoundError("Pet", e.petId) /\ e.out = <<>>
    ELSE LET n == Cardinality(RowsOfPet(e.petId)) IN
         /\ e.err = NoError
         /\ Len(e.out) = n
         /\ \E f \in Injections(n, Len(weights)) :
               \A k \in 1..n :
                  /\ f[k] \in RowsOfPet(e.petId)
                  /\ e.out[k] = [id |-> weights[f[k]].id, petId |-> e.petId,
                                 weight |-> weights[f[k]].weight,
                                 date |-> CalendarDate(weights[f[k]].date)]
         /\ \A k \in 1..(n - 1) : DateNotEarlier(e.out[k].date, e.out[k + 1].date)

\* the rows written since the database was seeded
WrittenRows == {weights[i] : i \in {j \in 1..Len(weights) : weights[j].id \notin SeedIds}}

SavedBy(s) ==
    IF exec[s].op = "CreateWeight" /\ exec[s].pc = "done" /\ exec[s].err = NoError
    THEN {WeightRow(exec[s].entity[1])} ELSE {}

\* C24: two requests served at once on different pets are independent.
\* Whatever the interleaving of their repository steps, each is answered as it
\* is when it runs alone against the rows of its own pet, before or after the
\* other (ids and the clock reading apart), the store ends with the seeded
\* rows and the rows of the requests that succeeded, and a step of one request
\* changes no row of the other's pet.
C24_DifferentPetsIndependent ==
    /\ [](\A s \in ConcSlots :
             /\ OnDifferentPets(s) =>
                   CASE exec[s].op = "CreatePet" -> AloneCreatePet(exec[s])
                     [] exec[s].op = "CreateWeight" -> AloneCreateWeight(exec[s])
                     [] exec[s].op = "GetWeightsByPetId" -> AloneGetWeights(exec[s])
             /\ (\A t \in ConcSlots : exec[t].pc = "done")
                   => WrittenRows = SavedBy(s) \cup SavedBy(OtherSlot(s)))
    /\ [][\A s \in ConcSlots :
             exec'[s] # exec[s] =>
                /\ exec'[OtherSlot(s)] = exec[OtherSlot(s)]
                /\ \A id \in ConcPetIds \ {Target(exec'[s])} :
                      /\ PetStored(id)' = PetStored(id)
                      /\ {weights[i] : i \in RowsOfPet(id)}
                            = {weights'[i] : i \in RowsOfPet(id)'}]_vars

\* a list of pet B and a weight saved for pet A, the save returning between
\* the two reads of the list
C24_Witness ==
    /\ exec["r1"].op = "CreateWeight" /\ exec["r1"].petId = PetA
    /\ exec["r1"].pc = "done" /\ exec["r1"].err = NoError
    /\ exec["r2"].op = "GetWeightsByPetId" /\ exec["r2"].petId = PetB
    /\ exec["r2"].pc = "done" /\ Len(exec["r2"].out) = 2
    /\ Len(weights) = Len(SeedWeights) + 1

\* C26: referential integrity of the store.  In every reachable state, under
\* any interleaving of CreatePet, CreateWeight and GetWeightsByPetId requests
\* served at once, the petId of every stored Weight is the id of a stored Pet.
C26_ReferentialIntegrity ==
    \A i \in 1..Len(weights) : PetStored(weights[i].petId)

\* a weight saved for the pet that the other request created while the first
\* was being served
C26_Witness ==
    /\ \E i \in 1..Len(weights) : weights[i].petId = Uuid(1)
    /\ \E s \in ConcSlots : exec[s].op = "CreatePet" /\ exec[s].pc = "done"
    /\ \E s \in ConcSlots : exec[s].op = "CreateWeight" /\ exec[s].pc = "done"

---------------------------------------------------------------------------
(* Properties of the store *)

\* C27: no entity that failed validation is ever persisted: every stored
\* Weight has 0 < weight <= 1000 and a date not after the instant at which it
\* was validated (hence not after now), and every stored Pet has a name whose
\* trimmed form is non-empty and whose length is at most 255.
C27_StoredEntitiesValid ==
    /\ \A i \in 1..Len(weights) :
          /\ WeightInRange(weights[i].weight)
          /\ ParseDate(CalendarDate(weights[i].date)) <= now
    /\ \A i \in 1..Len(pets) : IsValidName(pets[i].name)

\* C27 with the weight NaN set aside: a stored weight is within (0, 1000] or
\* is NaN
C27_StoredEntitiesValidOrNaN ==
    /\ \A i \in 1..Len(weights) :
          /\ IsReal(weights[i].weight) => WeightInRange(weights[i].weight)
          /\ ParseDate(CalendarDate(weights[i].date)) <= now
    /\ \A i \in 1..Len(pets) : IsValidName(pets[i].name)

=============================================================================
